---------------------------- MODULE Spec2Model ----------------------------
(***************************************************************************)
(* A model of the TallyFinance ai-service Orchestrator                     *)
(* (src/ai-service_TallyFinane/orchestrator.py) and its endpoint           *)
(* (src/ai-service_TallyFinane/app.py):                                    *)
(*   - the completion wrapper (_call_openai_json / _call_openai_text),     *)
(*     Phase A's decision pipeline, Phase B's reply pipeline and the       *)
(*     /orchestrate endpoint, as a request state machine (Spec);           *)
(*   - the mood calculator calculate_final_mood (SpecMood);                *)
(*   - the summary compressor _compress_summary (SpecCompress);            *)
(*   - the conversation summary fed back turn after turn (SpecTurns).      *)
(*                                                                         *)
(* Text is a sequence of tokens (a word, a digit, a punctuation mark or a  *)
(* single space), JSON values are tagged records, Python's None is the     *)
(* empty sequence <<>> where a value is optional.                          *)
(***************************************************************************)
EXTENDS Integers, Sequences, FiniteSets, TLC

VARIABLES
    \* ---- request machine (wrapper + Phase A) ----
    maxRetries,   \* config.MAX_RETRIES of this deployment
    pc,           \* "idle" | "calling" | "returned" | "raised" | "responded" | "failed"
                  \* | "answered"
    op,           \* which operation runs: "none" | "phase_a" | "phase_b" | "call_json"
                  \* | "call_text"
    attempt,      \* loop variable of the wrapper's for loop
    calls,        \* provider calls issued by the current wrapper call
    history,      \* outcome of every provider attempt so far, in order
    completion,   \* content of the last successful completion, <<>> before it
    last_exc,     \* the wrapper's last_exc: <<>> (None) or <<exception>>
    ret,          \* value returned by the wrapper, <<>> before it returns
    raised,       \* exception that left the operation, <<>> if none
    response,     \* OrchestrateResponsePhaseA returned by phase_a, <<>> if none
    log,          \* warn / err events emitted, in order
    request,      \* body of the /orchestrate request being handled, <<>> if none
    http,         \* answer of the endpoint: <<>> or <<[status, code]>>
    \* ---- mood calculator ----
    moodFirst,    \* first recorded call: <<>> or <<[args, result]>>
    moodLast,     \* most recent call: <<>> or <<[args, result]>>
    moodBetween,  \* a call with other arguments than the first was made since
    \* ---- summary compressor ----
    stage,        \* "build" | "once" | "twice"
    parts,        \* number of fragments the caller put into the summary
    summary,      \* the summary string handed to _compress_summary
    out1,         \* _compress_summary(summary)
    out2,         \* _compress_summary(out1)
    \* ---- conversation memory kept by the caller across Phase B turns ----
    turns,        \* successful register_transaction turns so far
    memory,       \* the summary the caller persisted: <<>> (None) or <<text>>
    \* ---- opening extractor ----
    reply,        \* the reply text handed to _extract_opening, built token by token
    opening,      \* <<>> before the call, <<result>> after it
    \* ---- prompt cache of one Orchestrator, and the threads calling it ----
    prompts,      \* the files of the prompts directory: file name -> text
    gus_identity, \* self._gus_identity: <<>> (None) or <<text>>
    tpc,          \* per thread: "start" | "load" | "store" | "return" | "done"
    loaded,       \* per thread: the text load_prompt gave it, <<>> before
    returned,     \* per thread: the value get_gus_identity returned, <<>> before
    \* ---- Phase B calls served by one Orchestrator ----
    sumFirst,     \* first recorded call: <<>> or <<[key, rest, result]>>
    sumLast,      \* most recent call: <<>> or <<[key, rest, result]>>
    sumServed     \* calls served so far

reqVars  == <<maxRetries, pc, op, attempt, calls, history, completion, last_exc,
              ret, raised, response, log, request, http>>
moodVars == <<moodFirst, moodLast, moodBetween>>
compVars == <<stage, parts, summary, out1, out2>>
turnVars == <<turns, memory>>
openVars == <<reply, opening>>
idVars   == <<prompts, gus_identity, tpc, loaded, returned>>
sumVars  == <<sumFirst, sumLast, sumServed>>
vars     == <<reqVars, moodVars, compVars, turnVars, openVars, idVars, sumVars>>

----------------------------------------------------------------------------
(* Bounds of the model *)

\* MAX_RETRIES ranges over 0..MaxRetriesBound
MaxRetriesBound == 2

\* streak_days ranges up to MaxStreak
MaxStreak == 8

\* the caller's summary is made of at most MaxParts fragments
MaxParts == 5

\* a reply handed to _extract_opening is made of at most MaxReply tokens
MaxReply == 4

\* threads calling get_gus_identity on one Orchestrator
MaxThreads == 3

\* Phase B calls one Orchestrator serves
MaxServed == 3

----------------------------------------------------------------------------
(* Python and JSON values *)

None == <<>>
Some(v) == <<v>>

JNull == [t |-> "null"]
JStr(s) == [t |-> "str", s |-> s]
JObj(f) == [t |-> "obj", o |-> f]
EmptyDict == <<>>

\* dict.get(key, default)
Get(d, key, default) == IF key \in DOMAIN d THEN d[key] ELSE default

\* every mapping from a subset of keys to values drawn per key from vals[key]
Mappings(keys, vals) ==
    UNION {{f \in [D -> UNION {vals[k] : k \in D}] : \A k \in D : f[k] \in vals[k]}
             : D \in SUBSET keys}

----------------------------------------------------------------------------
(* Text: sequences of tokens *)

IsSpace(tok) == tok = " "

RECURSIVE LStrip(_)
LStrip(s) == IF s # <<>> /\ IsSpace(Head(s)) THEN LStrip(Tail(s)) ELSE s

RECURSIVE RStrip(_)
RStrip(s) ==
    IF s # <<>> /\ IsSpace(s[Len(s)]) THEN RStrip(SubSeq(s, 1, Len(s) - 1)) ELSE s

\* str.strip()
Strip(s) == RStrip(LStrip(s))

----------------------------------------------------------------------------
(* The LLM provider, as the wrapper sees it *)

\* The JSON objects the provider may answer with in Phase A.
ResponseTypeValues ==
    {JStr("tool_call"), JStr("clarification"), JStr("direct_reply"), JStr("bogus"), JNull}

ToolCallValues ==
    {JNull} \cup
    {JObj(f) : f \in Mappings({"name", "args"},
                  [name |-> {JStr("register_transaction"), JNull},
                   args |-> {JObj(EmptyDict), JObj([amount |-> JStr("5000")]), JNull}])}

ClarificationValues == {JStr("cuanto"), JStr(""), JNull}

DirectReplyValues == {JStr("hola"), JNull}

LLMDocs ==
    Mappings({"response_type", "tool_call", "clarification", "direct_reply"},
             [response_type |-> ResponseTypeValues,
              tool_call     |-> ToolCallValues,
              clarification |-> ClarificationValues,
              direct_reply  |-> DirectReplyValues])

\* message.content of a structured-mode completion: None, or a text that is
\* blank, not JSON ("garbage"), or the serialisation of an object (the
\* request asks for response_format json_object), possibly padded with
\* whitespace.
JsonContents ==
    {None} \cup
    {Some([pad |-> p, kind |-> k, doc |-> EmptyDict]) :
        p \in BOOLEAN, k \in {"blank", "garbage"}} \cup
    {Some([pad |-> p, kind |-> "object", doc |-> d]) : p \in BOOLEAN, d \in LLMDocs}

\* message.content of a free-text completion
TextContents ==
    {None, Some(<<>>), Some(<<" ">>), Some(<<" ", "Listo", ",", " ", "anotado", ".", " ">>),
     Some(<<"Hola">>),
     Some(<<"Cuidado", " ", "con", " ", "el", " ", "presupuesto", ".">>),
     Some(<<"Racha", " ", "de", " ", "3", " ", "dias", " ", "seguidos", ".">>),
     Some(<<"Cuidado", ",", " ", "buena", " ", "racha", ".">>)}

\* What one provider call can do: time out, fail otherwise, or complete.
ProviderOutcomes(mode) ==
    {[kind |-> "timeout", content |-> None], [kind |-> "error", content |-> None]} \cup
    {[kind |-> "completion", content |-> c] :
        c \in IF mode = "json" THEN JsonContents ELSE TextContents}

----------------------------------------------------------------------------
(* Completion wrapper: _call_openai_json / _call_openai_text *)

Exc(kind, at) == [kind |-> kind, at |-> at]

\* for attempt in range(n)
InRangeOffByOne(att, n) == att <= n
InRange(att, n) == att < n

\* last_exc = exc
RememberFirst(last, exc) == IF last = None THEN Some(exc) ELSE last
Remember(last, exc) == Some(exc)

\* if attempt < self.config.MAX_RETRIES: warn
ShouldWarnAlways(att, max) == TRUE
ShouldWarn(att, max) == att < max

\* raw = (content or "").strip(); json.loads(raw) if raw else {}
JsonBodyLenient(content, att) ==
    [ok |-> TRUE,
     value |-> IF content # None /\ content[1].kind = "object" THEN content[1].doc
               ELSE EmptyDict]
JsonBody(content, att) ==
    LET raw == IF content = None THEN [pad |-> FALSE, kind |-> "blank", doc |-> EmptyDict]
               ELSE [content[1] EXCEPT !.pad = FALSE]
    IN  CASE raw.kind = "blank"   -> [ok |-> TRUE, value |-> EmptyDict]
          [] raw.kind = "object"  -> [ok |-> TRUE, value |-> raw.doc]
          [] raw.kind = "garbage" -> [ok |-> FALSE, exc |-> Exc("JSONDecodeError", att)]

\* result = (content or "").strip()
TextBody(content, att) ==
    [ok |-> TRUE, value |-> Strip(IF content = None THEN <<>> ELSE content[1])]

\* The body of the try statement for one provider outcome.
TryOnce(mode, outcome, att) ==
    CASE outcome.kind = "timeout" -> [ok |-> FALSE, exc |-> Exc("APITimeoutError", att)]
      [] outcome.kind = "error"   -> [ok |-> FALSE, exc |-> Exc("APIError", att)]
      [] OTHER -> IF mode = "json" THEN JsonBody(outcome.content, att)
                  ELSE TextBody(outcome.content, att)

ModeOf(o) == IF o \in {"call_text", "phase_b"} THEN "text" ELSE "json"

Warn == [level |-> "warn", src |-> "openai"]
Err  == [level |-> "err", src |-> "openai"]

\* Entering the wrapper: last_exc = None, the loop starts at attempt 0.
EnterWrapper(o) ==
    /\ pc = "idle"
    /\ pc' = "calling"
    /\ op' = o
    /\ attempt' = 0
    /\ calls' = 0
    /\ history' = <<>>
    /\ last_exc' = None
    /\ UNCHANGED <<maxRetries, completion, ret, raised, response, log, request, http>>
    /\ UNCHANGED <<moodVars, compVars, turnVars, openVars, idVars, sumVars>>

\* phase_a up to its call of _call_openai_json (prompt assembly changes no state)
phase_a_call == EnterWrapper("phase_a")

\* _call_openai_json called on its own
call_openai_json == EnterWrapper("call_json")

\* _call_openai_text called on its own
call_openai_text == EnterWrapper("call_text")

\* One iteration of the for loop; on the failure of the last iteration the
\* loop ends and the code after it logs the error and raises last_exc.
Iteration ==
    /\ pc = "calling"
    /\ InRange(attempt, maxRetries + 1)
    /\ \E outcome \in ProviderOutcomes(ModeOf(op)) :
         LET r == TryOnce(ModeOf(op), outcome, attempt) IN
         /\ calls' = calls + 1
         /\ history' = Append(history, IF r.ok THEN "ok" ELSE r.exc.kind)
         /\ IF r.ok
            THEN /\ ret' = Some(r.value)
                 /\ completion' = Some(outcome.content)
                 /\ pc' = "returned"
                 /\ UNCHANGED <<attempt, last_exc, raised, log>>
            ELSE LET exc    == Remember(last_exc, r.exc)
                     warned == IF ShouldWarn(attempt, maxRetries)
                               THEN Append(log, Warn) ELSE log
                 IN  /\ last_exc' = exc
                     /\ attempt' = attempt + 1
                     /\ IF InRange(attempt + 1, maxRetries + 1)
                        THEN /\ log' = warned
                             /\ UNCHANGED <<pc, raised>>
                        ELSE /\ log' = Append(warned, Err)
                             /\ raised' = exc
                             /\ pc' = "raised"
                     /\ UNCHANGED <<ret, completion>>
    /\ UNCHANGED <<maxRetries, op, response, request, http>>
    /\ UNCHANGED <<moodVars, compVars, turnVars, openVars, idVars, sumVars>>

----------------------------------------------------------------------------
(* Phase A decision pipeline: phase_a after the wrapper returned *)

valid_types == {"tool_call", "clarification", "direct_reply"}

DEFAULT_CLARIFICATION == "No entendi tu mensaje. Puedes dar mas detalles?"
DEFAULT_DIRECT_REPLY == "Hola! En que puedo ayudarte?"

Ok(v) == [ok |-> TRUE, value |-> v]
Fail(kind) == [ok |-> FALSE, exc |-> kind]

\* response_type = data.get("response_type", "clarification")
RawResponseType(data) == Get(data, "response_type", JStr("clarification"))

\* response_type in valid_types
IsValidType(rt) == rt.t = "str" /\ rt.s \in valid_types

\* the response_type after the validation step
ResponseType(data) ==
    IF IsValidType(RawResponseType(data)) THEN RawResponseType(data).s
    ELSE "clarification"

\* ToolCall(name=..., args=...): name must be a str, args a mapping
ToolCall(name, args) ==
    IF name.t = "str" /\ args.t = "obj"
    THEN Ok(Some([name |-> name.s, args |-> args.o]))
    ELSE Fail("ValidationError")

\* if response_type == "tool_call": ...
ToolCallField(rt, data) ==
    IF rt # "tool_call" THEN Ok(None)
    ELSE LET tool_call_data == Get(data, "tool_call", JObj(EmptyDict)) IN
         IF tool_call_data.t # "obj" THEN Fail("AttributeError")
         ELSE ToolCall(Get(tool_call_data.o, "name", JStr("unknown")),
                       Get(tool_call_data.o, "args", JObj(EmptyDict)))

\* text[:50] in the log call: only a str (of the values modelled) can be sliced
Sliced(text) == IF text.t = "str" THEN Ok(Some(text.s)) ELSE Fail("TypeError")

\* elif response_type == "clarification": ...
ClarificationFieldAlways(rt, data) ==
    Sliced(Get(data, "clarification", JStr(DEFAULT_CLARIFICATION)))
ClarificationField(rt, data) ==
    IF rt # "clarification" THEN Ok(None)
    ELSE Sliced(Get(data, "clarification", JStr(DEFAULT_CLARIFICATION)))

\* elif response_type == "direct_reply": ...
DirectReplyField(rt, data) ==
    IF rt # "direct_reply" THEN Ok(None)
    ELSE Sliced(Get(data, "direct_reply", JStr(DEFAULT_DIRECT_REPLY)))

\* What phase_a makes of the parsed mapping: a response, or the exception
\* raised while building it.
phase_a_result(data) ==
    LET rt == ResponseType(data)
        tc == ToolCallField(rt, data)
        cl == ClarificationField(rt, data)
        dr == DirectReplyField(rt, data)
    IN  IF ~tc.ok THEN tc
        ELSE IF ~cl.ok THEN cl
        ELSE IF ~dr.ok THEN dr
        ELSE Ok([phase |-> "A", response_type |-> rt, tool_call |-> tc.value,
                 clarification |-> cl.value, direct_reply |-> dr.value])

InvalidTypeErr(data) ==
    [level |-> "err", src |-> "orchestrator", full_response |-> data]

\* phase_a from the return of _call_openai_json to its own return
phase_a_finish ==
    /\ pc = "returned"
    /\ op = "phase_a"
    /\ LET data == ret[1]
           r    == phase_a_result(data)
       IN  /\ log' = IF IsValidType(RawResponseType(data)) THEN log
                     ELSE Append(log, InvalidTypeErr(data))
           /\ IF r.ok
              THEN /\ response' = Some(r.value)
                   /\ pc' = "responded"
                   /\ UNCHANGED raised
              ELSE /\ raised' = Some(Exc(r.exc, attempt))
                   /\ pc' = "failed"
                   /\ UNCHANGED response
    /\ UNCHANGED <<maxRetries, op, attempt, calls, history, completion, last_exc, ret,
                   request, http>>
    /\ UNCHANGED <<moodVars, compVars, turnVars, openVars, idVars, sumVars>>

----------------------------------------------------------------------------
(* The request machine *)

MoodIdle == moodFirst = None /\ moodLast = None /\ moodBetween = FALSE

CompIdle ==
    /\ stage = "build"
    /\ parts = 0
    /\ summary = <<>>
    /\ out1 = <<>>
    /\ out2 = <<>>

TurnIdle == turns = 0 /\ memory = None

OpenIdle == reply = <<>> /\ opening = None

Threads == 1..MaxThreads

PromptFiles == {"gus_identity.txt", "phase_a_system.txt", "phase_b_system.txt"}

PromptTexts == {<<"Eres", " ", "Gus">>, <<"Responde", " ", "en", " ", "JSON">>}

\* the state of a fresh Orchestrator and of threads that have not called yet
IdFresh ==
    /\ gus_identity = None
    /\ tpc = [t \in Threads |-> "start"]
    /\ loaded = [t \in Threads |-> None]
    /\ returned = [t \in Threads |-> None]

IdIdle ==
    /\ prompts = [f \in PromptFiles |-> <<"Eres", " ", "Gus">>]
    /\ IdFresh

SumIdle == sumFirst = None /\ sumLast = None /\ sumServed = 0

OthersIdle == OpenIdle /\ IdIdle /\ SumIdle

Init ==
    /\ maxRetries \in 0..MaxRetriesBound
    /\ pc = "idle"
    /\ op = "none"
    /\ attempt = 0
    /\ calls = 0
    /\ history = <<>>
    /\ completion = None
    /\ last_exc = None
    /\ ret = None
    /\ raised = None
    /\ response = None
    /\ log = <<>>
    /\ request = None
    /\ http = None
    /\ MoodIdle
    /\ CompIdle
    /\ TurnIdle
    /\ OthersIdle

----------------------------------------------------------------------------
(* Claims about the completion wrapper and Phase A, stated for Spec *)

Finished == pc \in {"returned", "raised", "responded", "failed"}

\* C1: one call of the completion wrapper issues at least 1 and at most
\* MAX_RETRIES + 1 provider calls, and no provider call follows the first
\* attempt that succeeds (a success is always the last attempt made).
C1_AttemptBudget ==
    /\ calls = Len(history)
    /\ calls <= maxRetries + 1
    /\ Finished => calls >= 1
    /\ \A i \in 1..Len(history) : history[i] = "ok" => i = Len(history)
    /\ (history # <<>> /\ history[Len(history)] = "ok") => pc # "calling"

\* the attempt budget is used up and the last allowed attempt succeeds
C1_Witness ==
    /\ pc = "returned"
    /\ maxRetries >= 1
    /\ calls = maxRetries + 1

\* the value the wrapper owes its caller for the completion it received
C2_Expected ==
    LET c == completion[1] IN
    IF ModeOf(op) = "json"
    THEN IF c = None THEN EmptyDict
         ELSE IF c[1].kind = "object" THEN c[1].doc ELSE EmptyDict
    ELSE IF c = None THEN <<>> ELSE Strip(c[1])

\* C2: the wrapper returns the result of the first successful attempt even
\* if earlier attempts failed; if all MAX_RETRIES + 1 attempts fail it raises
\* exactly the exception of the last attempt, unchanged in kind.
C2_FirstSuccessOrLastFailure ==
    /\ ret # None =>
         /\ history[Len(history)] = "ok"
         /\ \A i \in 1..(Len(history) - 1) : history[i] # "ok"
         /\ ret = Some(C2_Expected)
    /\ pc = "raised" =>
         /\ Len(history) = maxRetries + 1
         /\ \A i \in 1..Len(history) : history[i] # "ok"
         /\ raised = Some(Exc(history[Len(history)], Len(history) - 1))

\* a timeout followed by a failure of another kind: the second one is raised
C2_Witness ==
    /\ pc = "raised"
    /\ Len(history) >= 2
    /\ history[Len(history) - 1] = "APITimeoutError"
    /\ history[Len(history)] = "JSONDecodeError"

\* a failed attempt followed by a successful one
C2_WitnessRetrySucceeds ==
    /\ pc = "returned"
    /\ Len(history) >= 2
    /\ ret # Some(EmptyDict)

PhaseAEnded == op = "phase_a" /\ pc \in {"responded", "failed"}

\* C3: for every parsed mapping whose response_type is not one of the three
\* valid values, phase_a does not raise: it returns a response of type
\* clarification with a non-null clarification text.
C3_InvalidTypeFallsBack ==
    (PhaseAEnded /\ ~IsValidType(RawResponseType(ret[1]))) =>
        /\ pc = "responded"
        /\ response[1].response_type = "clarification"
        /\ response[1].clarification # None

\* C4: every response phase_a returns has exactly one of tool_call,
\* clarification, direct_reply non-null, the one response_type names.
C4_ExactlyOnePayload ==
    (op = "phase_a" /\ pc = "responded") =>
        LET r == response[1] IN
        /\ r.response_type \in valid_types
        /\ (r.tool_call # None) <=> (r.response_type = "tool_call")
        /\ (r.clarification # None) <=> (r.response_type = "clarification")
        /\ (r.direct_reply # None) <=> (r.response_type = "direct_reply")

\* a tool_call response built from a mapping that also carried a clarification
\* and a direct_reply text
C4_Witness ==
    /\ op = "phase_a"
    /\ pc = "responded"
    /\ response[1].response_type = "tool_call"
    /\ "clarification" \in DOMAIN ret[1]
    /\ ret[1]["clarification"] # JNull
    /\ "direct_reply" \in DOMAIN ret[1]

\* the nested tool_call object of the mapping, empty when absent or null
C5_Nested ==
    LET tcd == Get(ret[1], "tool_call", JObj(EmptyDict)) IN
    IF tcd.t = "obj" THEN tcd.o ELSE EmptyDict

\* C5: when response_type is tool_call, phase_a returns a ToolCall without
\* failing, with name the nested name or "unknown" and args the nested args
\* or the empty mapping, also when the nested tool_call is absent or null.
C5_ToolCallDefaults ==
    (PhaseAEnded /\ RawResponseType(ret[1]) = JStr("tool_call")) =>
        /\ pc = "responded"
        /\ response[1].tool_call # None
        /\ JStr(response[1].tool_call[1].name) = Get(C5_Nested, "name", JStr("unknown"))
        /\ JObj(response[1].tool_call[1].args) = Get(C5_Nested, "args", JObj(EmptyDict))

----------------------------------------------------------------------------
(* Mood calculator: calculate_final_mood *)

MOOD_LADDER == <<"frustrated", "tired", "normal", "hopeful", "happy", "proud">>

Moods == {MOOD_LADDER[i] : i \in 1..Len(MOOD_LADDER)}

mood_mapping ==
    [normal |-> "normal", happy |-> "happy", disappointed |-> "tired", tired |-> "tired",
     hopeful |-> "hopeful", frustrated |-> "frustrated", proud |-> "proud"]

\* Thresholds of the overrides; budget_percent is counted in thousandths.
BUDGET_OVER == 950
BUDGET_LOW == 500
STREAK_PROUD == 7
DEFAULT_IDX == 2
FRUSTRATED_IDX == 0
PROUD_IDX == 5

Max(a, b) == IF a >= b THEN a ELSE b
Min(a, b) == IF a <= b THEN a ELSE b

\* a Python list read at index i: negative indexes count from the end, an
\* index outside the list raises IndexError
ListAt(list, i) ==
    IF 0 <= i /\ i < Len(list) THEN list[i + 1]
    ELSE IF -Len(list) <= i /\ i < 0 THEN list[Len(list) + i + 1]
    ELSE "IndexError"

\* MOOD_LADDER.index(mood)
LadderIndex(mood) == CHOOSE i \in 0..(Len(MOOD_LADDER) - 1) : MOOD_LADDER[i + 1] = mood

\* normalized_mood = mood_mapping.get(base_mood, "normal")
NormalizeMoodIdentity(base_mood) == base_mood
NormalizeMood(base_mood) == Get(mood_mapping, base_mood, "normal")

\* current_idx = MOOD_LADDER.index(normalized_mood) if normalized_mood in MOOD_LADDER else 2
CurrentIdx(normalized_mood) ==
    IF normalized_mood \in Moods THEN LadderIndex(normalized_mood) ELSE DEFAULT_IDX

\* target_idx = max(0, min(len(MOOD_LADDER) - 1, target_idx))
Clamp(idx) == Max(0, Min(Len(MOOD_LADDER) - 1, idx))

\* the overrides for extreme cases
OverrideStreakOnly(target_idx, budget_percent, streak_days) ==
    IF streak_days >= STREAK_PROUD
       /\ (budget_percent = None \/ budget_percent[1] < BUDGET_LOW)
    THEN PROUD_IDX
    ELSE target_idx
OverrideStreakAnyBudget(target_idx, budget_percent, streak_days) ==
    IF budget_percent # None /\ budget_percent[1] > BUDGET_OVER THEN FRUSTRATED_IDX
    ELSE IF streak_days >= STREAK_PROUD THEN PROUD_IDX
    ELSE target_idx
Override(target_idx, budget_percent, streak_days) ==
    IF budget_percent # None /\ budget_percent[1] > BUDGET_OVER THEN FRUSTRATED_IDX
    ELSE IF streak_days >= STREAK_PROUD
            /\ (budget_percent = None \/ budget_percent[1] < BUDGET_LOW)
    THEN PROUD_IDX
    ELSE target_idx

\* a calculator that carries the mood over from the call before
calculate_final_mood_sticky(base_mood, mood_hint, budget_percent, streak_days) ==
    LET carried     == IF moodLast = None THEN base_mood ELSE moodLast[1].result
        current_idx == CurrentIdx(NormalizeMood(carried))
        target_idx  == Clamp(current_idx + mood_hint)
    IN  ListAt(MOOD_LADDER, Override(target_idx, budget_percent, streak_days))
calculate_final_mood(base_mood, mood_hint, budget_percent, streak_days) ==
    LET current_idx == CurrentIdx(NormalizeMood(base_mood))
        target_idx  == Clamp(current_idx + mood_hint)
    IN  ListAt(MOOD_LADDER, Override(target_idx, budget_percent, streak_days))

\* The arguments the calculator is called with.
BaseMoods == DOMAIN mood_mapping \cup {"bogus"}
Hints == {-1, 0, 1}
Budgets ==
    {None} \cup
    {Some(b) : b \in {BUDGET_LOW - 1, BUDGET_LOW, BUDGET_OVER, BUDGET_OVER + 1}}
Streaks == {0} \cup ((STREAK_PROUD - 1)..MaxStreak)

MoodArgs ==
    [base_mood : BaseMoods, mood_hint : Hints, budget_percent : Budgets,
     streak_days : Streaks]

\* One call of calculate_final_mood; the first call and the latest call are
\* kept, with whether other arguments were used in between. The scenario is
\* a first call, then a call with any arguments, then calls that repeat the
\* first one's arguments.
mood_call ==
    /\ \E a \in MoodArgs :
         LET rec == [args |-> a,
                     result |-> calculate_final_mood(a.base_mood, a.mood_hint,
                                                     a.budget_percent, a.streak_days)]
         IN  /\ moodBetween => a = moodFirst[1].args
             /\ moodFirst' = IF moodFirst = None THEN Some(rec) ELSE moodFirst
             /\ moodLast' = Some(rec)
             /\ moodBetween' = IF moodFirst = None THEN FALSE
                               ELSE (moodBetween \/ a # moodFirst[1].args)
    /\ UNCHANGED <<reqVars, compVars, turnVars, openVars, idVars, sumVars>>

ReqIdle ==
    /\ maxRetries = 0
    /\ pc = "idle"
    /\ op = "none"
    /\ attempt = 0
    /\ calls = 0
    /\ history = <<>>
    /\ completion = None
    /\ last_exc = None
    /\ ret = None
    /\ raised = None
    /\ response = None
    /\ log = <<>>
    /\ request = None
    /\ http = None

InitMood == ReqIdle /\ MoodIdle /\ CompIdle /\ TurnIdle /\ OthersIdle

NextMood == mood_call

SpecMood == InitMood /\ [][NextMood]_vars

----------------------------------------------------------------------------
(* Claims about the mood calculator, stated for SpecMood *)

\* C6: calculate_final_mood returns one of the six ladder values, and two
\* calls with equal arguments return equal results whatever calls were made
\* in between.
C6_LadderValuedAndPure ==
    /\ moodLast # None => moodLast[1].result \in Moods
    /\ (moodFirst # None /\ moodLast # None /\ moodLast[1].args = moodFirst[1].args)
          => moodLast[1].result = moodFirst[1].result

\* the first call's arguments are used again after a call with other arguments
C6_Witness ==
    /\ moodFirst # None
    /\ moodBetween
    /\ moodLast[1].args = moodFirst[1].args
    /\ moodLast[1].args.base_mood = "bogus"

\* C7: whenever budget_percent is present and above 0.95 the result is
\* frustrated, for every base mood, hint and streak count.
C7_BudgetOverrideWins ==
    (moodLast # None /\ moodLast[1].args.budget_percent # None
       /\ moodLast[1].args.budget_percent[1] > BUDGET_OVER)
      => moodLast[1].result = "frustrated"

\* budget above 0.95 on a proud base mood with a positive hint and a long streak
C7_Witness ==
    /\ moodLast # None
    /\ moodLast[1].args = [base_mood |-> "proud", mood_hint |-> 1,
                           budget_percent |-> Some(BUDGET_OVER + 1),
                           streak_days |-> STREAK_PROUD]
    /\ moodLast[1].result = "frustrated"

\* the ladder index the specification assigns to a base mood
C9_AliasIndex(base) ==
    CASE base = "frustrated"   -> 0
      [] base = "tired"        -> 1
      [] base = "disappointed" -> 1
      [] base = "normal"       -> 2
      [] base = "hopeful"      -> 3
      [] base = "happy"        -> 4
      [] base = "proud"        -> 5
      [] OTHER                 -> 2

\* the hint-adjusted mood: the ladder entry at clamp(i + hint, 0, 5)
C9_HintAdjusted(a) ==
    LET j == C9_AliasIndex(a.base_mood) + a.mood_hint
    IN  MOOD_LADDER[(IF j < 0 THEN 0 ELSE IF j > 5 THEN 5 ELSE j) + 1]

C8_LongStreak == moodLast # None /\ moodLast[1].args.streak_days >= 7

\* C8: with streak_days >= 7 and budget_percent absent or below 0.5 the
\* result is proud; with streak_days >= 7 and budget_percent in [0.5, 0.95]
\* no override applies and the hint-adjusted mood is returned.
C8_StreakOverride ==
    C8_LongStreak =>
        LET a == moodLast[1].args IN
        /\ (a.budget_percent = None \/ a.budget_percent[1] < 500)
              => moodLast[1].result = "proud"
        /\ (a.budget_percent # None /\ a.budget_percent[1] >= 500
              /\ a.budget_percent[1] <= 950)
              => moodLast[1].result = C9_HintAdjusted(a)

\* a long streak with the budget exactly at 0.5: the mood is not forced to proud
C8_Witness ==
    /\ C8_LongStreak
    /\ moodLast[1].args.budget_percent = Some(BUDGET_LOW)
    /\ moodLast[1].args.base_mood = "normal"
    /\ moodLast[1].result # "proud"

C9_NoOverride ==
    /\ moodLast # None
    /\ ~(moodLast[1].args.budget_percent # None
           /\ moodLast[1].args.budget_percent[1] > 950)
    /\ ~(moodLast[1].args.streak_days >= 7
           /\ (moodLast[1].args.budget_percent = None
                 \/ moodLast[1].args.budget_percent[1] < 500))

\* C9: when neither override triggers, the result is the ladder entry at
\* clamp(i + hint, 0, 5), i the ladder index of the base mood after aliasing
\* (disappointed -> tired, unrecognized -> normal).
C9_HintAdjustedLadder ==
    C9_NoOverride => moodLast[1].result = C9_HintAdjusted(moodLast[1].args)

\* the deprecated mood with no hint and no override comes out as tired
C9_Witness ==
    /\ C9_NoOverride
    /\ moodLast[1].args.base_mood = "disappointed"
    /\ moodLast[1].args.mood_hint = 0
    /\ moodLast[1].result = "tired"

----------------------------------------------------------------------------
(* Conversation summary compressor: _compress_summary *)

Digits == <<"0", "1", "2", "3", "4", "5", "6", "7", "8", "9">>

IsDigit(tok) == \E i \in 1..Len(Digits) : Digits[i] = tok

DigitVal(tok) == (CHOOSE i \in 1..Len(Digits) : Digits[i] = tok) - 1

\* the character class [0-9,.]
IsAmountChar(tok) == IsDigit(tok) \/ tok = "," \/ tok = "."

\* the character class [^.]
IsCategoryChar(tok) == tok # "."

\* str.lower(), token by token (tokens are written without their accents:
\* "Registro" stands for the source's accented word)
LowerMap ==
    ("Registro" :> "registro") @@ ("Comida" :> "comida") @@ ("Casa" :> "casa") @@
    ("Consulto" :> "consulto") @@ ("Cuidado" :> "cuidado") @@ ("Racha" :> "racha")

LowerTok(tok) == IF tok \in DOMAIN LowerMap THEN LowerMap[tok] ELSE tok

Lower(s) == [i \in 1..Len(s) |-> LowerTok(s[i])]

\* the last index of the run of [0-9,.] tokens that starts at p (p - 1 when
\* the run is empty)
RECURSIVE AmountRunEnd(_, _)
AmountRunEnd(s, p) ==
    IF p <= Len(s) /\ IsAmountChar(s[p]) THEN AmountRunEnd(s, p + 1) ELSE p - 1

\* the same for the run of [^.] tokens
RECURSIVE CategoryRunEnd(_, _)
CategoryRunEnd(s, p) ==
    IF p <= Len(s) /\ IsCategoryChar(s[p]) THEN CategoryRunEnd(s, p + 1) ELSE p - 1

TokAt(s, p) == IF p >= 1 /\ p <= Len(s) THEN s[p] ELSE ""

NoMatch == [found |-> FALSE]

\* re.match of  Registro \$([0-9,.]+) en ([^.]+)\.  at position p: both
\* groups are greedy and neither can give a token back, so the amount is the
\* whole run of [0-9,.] and the category runs to the first period.
MatchAt(s, p) ==
    IF ~(TokAt(s, p) = "Registro" /\ TokAt(s, p + 1) = " " /\ TokAt(s, p + 2) = "$")
    THEN NoMatch
    ELSE LET aEnd == AmountRunEnd(s, p + 3) IN
         IF aEnd < p + 3
            \/ ~(TokAt(s, aEnd + 1) = " " /\ TokAt(s, aEnd + 2) = "en"
                   /\ TokAt(s, aEnd + 3) = " ")
         THEN NoMatch
         ELSE LET cEnd == CategoryRunEnd(s, aEnd + 4) IN
              IF cEnd < aEnd + 4 \/ TokAt(s, cEnd + 1) # "."
              THEN NoMatch
              ELSE [found |-> TRUE, start |-> p, end |-> cEnd + 1,
                    amount |-> SubSeq(s, p + 3, aEnd),
                    category |-> SubSeq(s, aEnd + 4, cEnd)]

\* list(re.finditer(individual_pattern, summary)): leftmost matches that do
\* not overlap, from position p on
RECURSIVE FindAll(_, _)
FindAll(s, p) ==
    IF p > Len(s) THEN <<>>
    ELSE LET m == MatchAt(s, p) IN
         IF m.found THEN <<m>> \o FindAll(s, m.end + 1) ELSE FindAll(s, p + 1)

\* m.group(1).replace(".", "").replace(",", "")
AmountStr(amount) == SelectSeq(amount, IsDigit)

RECURSIVE DigitsValue(_)
DigitsValue(ds) ==
    IF ds = <<>> THEN 0
    ELSE 10 * DigitsValue(SubSeq(ds, 1, Len(ds) - 1)) + DigitVal(ds[Len(ds)])

\* amount = float(amount_str) if amount_str else 0
AmountOf(m) == DigitsValue(AmountStr(m.amount))

\* category.lower(), category = m.group(2).strip()
KeyOf(m) == Lower(Strip(m.category))

\* the keys of category_groups, in insertion order
RECURSIVE GroupKeys(_)
GroupKeys(ms) ==
    IF ms = <<>> THEN <<>>
    ELSE LET rest == GroupKeys(SubSeq(ms, 1, Len(ms) - 1))
             k    == KeyOf(ms[Len(ms)])
         IN  IF \E i \in 1..Len(rest) : rest[i] = k THEN rest ELSE Append(rest, k)

\* category_groups[key]
RECURSIVE GroupEntries(_, _)
GroupEntries(ms, key) ==
    IF ms = <<>> THEN <<>>
    ELSE (IF KeyOf(Head(ms)) = key THEN <<Head(ms)>> ELSE <<>>)
           \o GroupEntries(Tail(ms), key)

\* str(n) for n >= 0
RECURSIVE FormatInt(_)
FormatInt(n) ==
    IF n < 10 THEN <<Digits[n + 1]>>
    ELSE Append(FormatInt(n \div 10), Digits[(n % 10) + 1])

\* f"{n:,.0f}" for a whole n >= 0: a comma before every group of three digits
RECURSIVE GroupThousands(_)
GroupThousands(ds) ==
    IF Len(ds) <= 3 THEN ds
    ELSE GroupThousands(SubSeq(ds, 1, Len(ds) - 3))
           \o <<",">> \o SubSeq(ds, Len(ds) - 2, Len(ds))

FormatThousands(n) == GroupThousands(FormatInt(n))

RECURSIVE SumAmounts(_)
SumAmounts(entries) ==
    IF entries = <<>> THEN 0 ELSE AmountOf(Head(entries)) + SumAmounts(Tail(entries))

\* f"Registro {count} gastos en {category_name} (${total:,.0f} total)."
Aggregate(entries) ==
    <<"Registro", " ">> \o FormatInt(Len(entries)) \o <<" ", "gastos", " ", "en", " ">>
      \o Strip(entries[1].category) \o <<" ", "(", "$">>
      \o FormatThousands(SumAmounts(entries)) \o <<" ", "total", ")", ".">>

\* non_tx_parts: the stripped, non-empty spans between the matches and
\* after the last one
\* a rebuild that keeps only the text after the last match
NonTxPartsAfterLast(s, ms, last_end) ==
    LET from     == IF ms = <<>> THEN last_end ELSE ms[Len(ms)].end
        trailing == Strip(SubSeq(s, from + 1, Len(s)))
    IN  IF trailing # <<>> THEN <<trailing>> ELSE <<>>
RECURSIVE NonTxParts(_, _, _)
NonTxParts(s, ms, last_end) ==
    IF ms = <<>>
    THEN LET trailing == Strip(SubSeq(s, last_end + 1, Len(s))) IN
         IF trailing # <<>> THEN <<trailing>> ELSE <<>>
    ELSE LET before == Strip(SubSeq(s, last_end + 1, Head(ms).start - 1)) IN
         (IF before # <<>> THEN <<before>> ELSE <<>>)
           \o NonTxParts(s, Tail(ms), Head(ms).end)

\* result_parts: per category, in insertion order, the aggregate sentence
\* or the single original sentence
RECURSIVE ResultParts(_, _, _)
ResultParts(s, ms, keys) ==
    IF keys = <<>> THEN <<>>
    ELSE LET entries == GroupEntries(ms, Head(keys)) IN
         <<IF Len(entries) >= 2 THEN Aggregate(entries)
           ELSE SubSeq(s, entries[1].start, entries[1].end)>>
           \o ResultParts(s, ms, Tail(keys))

\* " ".join(parts)
RECURSIVE Join(_)
Join(ps) ==
    IF ps = <<>> THEN <<>>
    ELSE IF Len(ps) = 1 THEN ps[1]
    ELSE ps[1] \o <<" ">> \o Join(Tail(ps))

\* a compressor that rebuilds the summary whenever it has two matches
compress_summary_rebuild(s) ==
    LET matches == FindAll(s, 1) IN
    IF Len(matches) < 2 THEN s
    ELSE Join(SelectSeq(NonTxParts(s, matches, 0)
                          \o ResultParts(s, matches, GroupKeys(matches)),
                        LAMBDA part : part # <<>>))
compress_summary(s) ==
    LET matches == FindAll(s, 1) IN
    IF Len(matches) < 2 THEN s
    ELSE LET keys == GroupKeys(matches) IN
         IF ~(\E i \in 1..Len(keys) : Len(GroupEntries(matches, keys[i])) >= 2) THEN s
         ELSE Join(SelectSeq(NonTxParts(s, matches, 0) \o ResultParts(s, matches, keys),
                             LAMBDA part : part # <<>>))

----------------------------------------------------------------------------
(* Summary generator: _summarize_action *)

\* values of ActionResult.data: a text, an int, a float with one decimal
\* (n + d / 10)
JText(x) == [t |-> "text", x |-> x]
JInt(n) == [t |-> "int", n |-> n]
JFloat(n, d) == [t |-> "float", n |-> n, d |-> d]

\* isinstance(v, (int, float))
IsNumber(v) == v.t \in {"int", "float"}

\* f"{amount:,}": an int with thousands separators, a float with its decimal
RenderAmount(amount) ==
    IF amount.t = "int" THEN FormatThousands(amount.n)
    ELSE FormatThousands(amount.n) \o <<".", Digits[amount.d + 1]>>

\* ActionResult(ok=..., data=...)
ActionResult(ok, data) == [ok |-> ok, data |-> data]

\* The sentence that records one action in the conversation memory, for the
\* tools register_transaction, ask_balance, ask_goal_status and the tools
\* that have no template of their own.
summarize_action(tool_name, result) ==
    IF ~result.ok THEN <<>>
    ELSE LET data == IF result.data = None THEN EmptyDict ELSE result.data[1] IN
         CASE tool_name = "register_transaction" ->
                LET amount   == Get(data, "amount", JText(<<"?">>))
                    category == Get(data, "category", JText(<<"gasto">>))
                    desc     == Get(data, "description", JText(<<>>))
                IN  IF IsNumber(amount)
                    THEN <<"Registro", " ", "$">> \o RenderAmount(amount)
                           \o <<" ", "en", " ">> \o category.x
                           \o (IF desc.x # <<>> THEN <<" ", "(">> \o desc.x \o <<")">>
                               ELSE <<>>)
                           \o <<".">>
                    ELSE <<"Registro", " ", "gasto", " ", "en", " ">> \o category.x
                           \o <<".">>
           [] tool_name = "ask_balance" ->
                LET total == Get(data, "totalSpent", JNull) IN
                IF IsNumber(total) /\ total.n # 0
                THEN <<"Consulto", " ", "su", " ", "balance", " ", "(", "$">>
                       \o FormatThousands(total.n)
                       \o <<" ", "gastado", " ", "este", " ", "mes", ")", ".">>
                ELSE <<"Consulto", " ", "su", " ", "balance", ".">>
           [] tool_name = "ask_goal_status" ->
                <<"Consulto", " ", "progreso", " ", "de", " ", "metas", ".">>
           [] OTHER -> <<"Uso", " ", tool_name, ".">>

\* a successful register_transaction result
Registered(amount, category) ==
    ActionResult(TRUE, Some([amount |-> amount, category |-> JText(category)]))

----------------------------------------------------------------------------
(* The compressor on summaries a caller sends *)

\* The pieces a caller's summary is made of: sentences of the summary
\* generator (one of them for a non-integer amount), another sentence, and
\* two pieces of a cut sentence.
Fragments ==
    { <<"Registro", " ", "$", "1", ",", "5", "0", "0", " ", "en", " ", "Comida", ".">>,
      summarize_action("register_transaction", Registered(JFloat(1, 5), <<"Comida">>)),
      <<"Registro", " ", "$", "3", " ", "en", " ", "comida", ".">>,
      <<"Registro", " ", "$", "7", " ", "en", " ", "Casa", ".">>,
      <<"Consulto", " ", "su", " ", "balance", ".">>,
      <<"Registro">>,
      <<"$", "2", " ", "en", " ", "Casa", ".">> }

\* The caller extends the summary it will send by one fragment.
AppendFragment ==
    /\ stage = "build"
    /\ parts < MaxParts
    /\ \E f \in Fragments :
         summary' = (IF summary = <<>> THEN f ELSE summary \o <<" ">> \o f)
    /\ parts' = parts + 1
    /\ UNCHANGED <<stage, out1, out2>>
    /\ UNCHANGED <<reqVars, moodVars, turnVars, openVars, idVars, sumVars>>

\* _compress_summary(summary)
Compress ==
    /\ stage = "build"
    /\ stage' = "once"
    /\ out1' = compress_summary(summary)
    /\ UNCHANGED <<parts, summary, out2>>
    /\ UNCHANGED <<reqVars, moodVars, turnVars, openVars, idVars, sumVars>>

\* _compress_summary applied to its own output
CompressAgain ==
    /\ stage = "once"
    /\ stage' = "twice"
    /\ out2' = compress_summary(out1)
    /\ UNCHANGED <<parts, summary, out1>>
    /\ UNCHANGED <<reqVars, moodVars, turnVars, openVars, idVars, sumVars>>

InitCompress == ReqIdle /\ MoodIdle /\ CompIdle /\ TurnIdle /\ OthersIdle

NextCompress ==
    \/ AppendFragment
    \/ Compress
    \/ CompressAgain

SpecCompress == InitCompress /\ [][NextCompress]_vars

----------------------------------------------------------------------------
(* Claims about the summary compressor, stated for SpecCompress *)

\* C10: summary compression is idempotent: for every summary s,
\* _compress_summary(_compress_summary(s)) = _compress_summary(s).
C10_Idempotent == stage = "twice" => out2 = out1

\* the last index of the run of digit and comma tokens that starts at p
RECURSIVE C12_NumberRunEnd(_, _)
C12_NumberRunEnd(s, p) ==
    IF p <= Len(s) /\ (IsDigit(s[p]) \/ s[p] = ",") THEN C12_NumberRunEnd(s, p + 1)
    ELSE p - 1

\* the first index from p on that holds tok (Len(s) + 1 when there is none)
RECURSIVE C12_IndexOf(_, _, _)
C12_IndexOf(s, tok, p) ==
    IF p > Len(s) \/ s[p] = tok THEN p ELSE C12_IndexOf(s, tok, p + 1)

\* an aggregate sentence "Registro <count> gastos en <category> ($<total>
\* total)." read at position p
C12_AggregateAt(s, p) ==
    IF ~(TokAt(s, p) = "Registro" /\ TokAt(s, p + 1) = " ") THEN NoMatch
    ELSE LET nEnd == C12_NumberRunEnd(s, p + 2) IN
         IF nEnd < p + 2 \/ SubSeq(s, nEnd + 1, nEnd + 5) # <<" ", "gastos", " ", "en", " ">>
         THEN NoMatch
         ELSE LET open == C12_IndexOf(s, "(", nEnd + 6)
                  tEnd == C12_NumberRunEnd(s, open + 2)
              IN  IF TokAt(s, open + 1) # "$" \/ tEnd < open + 2
                     \/ SubSeq(s, tEnd + 1, tEnd + 4) # <<" ", "total", ")", ".">>
                  THEN NoMatch
                  ELSE [found |-> TRUE,
                        count |-> DigitsValue(SelectSeq(SubSeq(s, p + 2, nEnd), IsDigit)),
                        category |-> Strip(SubSeq(s, nEnd + 6, open - 1)),
                        total |-> DigitsValue(SelectSeq(SubSeq(s, open + 2, tEnd), IsDigit))]

\* where the aggregate sentences of s about the category with key k start
C12_AggregatePositions(s, k) ==
    {q \in 1..Len(s) :
        C12_AggregateAt(s, q).found /\ Lower(C12_AggregateAt(s, q).category) = k}

\* the amount a rendering of the summary generator stands for, in tenths:
\* commas separate thousands, a period starts the decimals
C12_Tenths(amount) ==
    LET plain == SelectSeq(amount, LAMBDA tok : tok # ",")
        dot   == C12_IndexOf(plain, ".", 1)
    IN  10 * DigitsValue(SubSeq(plain, 1, dot - 1))
          + (IF dot < Len(plain) THEN DigitVal(plain[dot + 1]) ELSE 0)

RECURSIVE C12_SumTenths(_)
C12_SumTenths(entries) ==
    IF entries = <<>> THEN 0
    ELSE C12_Tenths(Head(entries).amount) + C12_SumTenths(Tail(entries))

\* the individual sentences of s about the category with key k
C12_Individual(s, k) == GroupEntries(FindAll(s, 1), k)

\* the categories of the summary that have two or more individual sentences
C12_RepeatedKeys ==
    {KeyOf(FindAll(summary, 1)[i]) : i \in 1..Len(FindAll(summary, 1))}
        \cap {k \in {KeyOf(FindAll(summary, 1)[i]) : i \in 1..Len(FindAll(summary, 1))} :
                 Len(C12_Individual(summary, k)) >= 2}

\* C12: in the output of _compress_summary every category (case-insensitive)
\* with two or more individual sentences in the input has exactly one
\* aggregate sentence, whose count is the number of merged sentences and
\* whose total is the sum of their amounts (to the nearest unit), and none of
\* the merged sentences remains; also for non-integer amounts.
C12_OneAggregatePerCategory ==
    stage # "build" =>
        \A k \in C12_RepeatedKeys :
            LET merged == C12_Individual(summary, k)
                aggs   == C12_AggregatePositions(out1, k)
                left   == C12_Individual(out1, k)
            IN  /\ Cardinality(aggs) = 1
                /\ \A q \in aggs :
                      /\ C12_AggregateAt(out1, q).count = Len(merged)
                      /\ 10 * C12_AggregateAt(out1, q).total - C12_SumTenths(merged)
                            \in -5..5
                /\ \A i \in 1..Len(left) : \A j \in 1..Len(merged) :
                      SubSeq(out1, left[i].start, left[i].end)
                        # SubSeq(summary, merged[j].start, merged[j].end)

\* the sentences of the summary that match the transaction pattern
C13_Matches == FindAll(summary, 1)

\* two of the matched sentences name the same category, letter case aside
C13_RepeatedCategory ==
    \E i, j \in 1..Len(C13_Matches) :
        /\ i < j
        /\ Lower(Strip(C13_Matches[i].category)) = Lower(Strip(C13_Matches[j].category))

\* C13: _compress_summary returns its input unchanged, token for token, when
\* the input has fewer than two transaction-pattern matches, or has two or
\* more but no category (case-insensitive) with at least two of them.
C13_NoOpWithoutRepeats ==
    (stage # "build" /\ (Len(C13_Matches) < 2 \/ ~C13_RepeatedCategory))
        => out1 = summary

\* two matches of different categories with another sentence between them,
\* which a rebuild would move to the front
C13_Witness ==
    /\ stage = "once"
    /\ Len(C13_Matches) >= 2
    /\ ~C13_RepeatedCategory
    /\ C13_Matches[1].start = 1
    /\ C13_Matches[2].start > C13_Matches[1].end + 2
    /\ out1 = summary

----------------------------------------------------------------------------
(* Phase B reply pipeline: phase_b after the wrapper returned *)

\* RuntimeContext(): the defaults of the schema
RuntimeContext(conv, metrics, can_nudge, can_budget_warning) ==
    [summary |-> conv, metrics |-> metrics, can_nudge |-> can_nudge,
     can_budget_warning |-> can_budget_warning]

DefaultRuntime == RuntimeContext(None, None, TRUE, TRUE)

\* runtime = runtime_context or RuntimeContext()
Runtime(runtime_context) ==
    IF runtime_context = None THEN DefaultRuntime ELSE runtime_context[1]

\* budget_percent = metrics.budget_percent if metrics else None (in thousandths)
BudgetPercent(runtime) ==
    IF runtime.metrics = None THEN None ELSE runtime.metrics[1].budget_percent

\* streak_days = metrics.tx_streak_days if metrics else 0
StreakDays(runtime) ==
    IF runtime.metrics = None THEN 0 ELSE runtime.metrics[1].tx_streak_days

\* conv_summary = runtime.summary or ""
ConvSummary(conv) == IF conv = None THEN <<>> ELSE conv[1]

BUDGET_KEYWORDS == {<<"presupuesto">>, <<"gastado">>, <<"limite">>, <<"cuidado">>}
STREAK_KEYWORDS == {<<"racha">>, <<"dias", " ", "seguidos">>, <<"constante">>}

\* Thresholds of the nudge heuristics; budget_percent in thousandths.
NUDGE_BUDGET == 900
NUDGE_STREAK == 3

\* w in lower_msg
Contains(s, w) ==
    \E p \in 1..(Len(s) - Len(w) + 1) : SubSeq(s, p, p + Len(w) - 1) = w

\* any(w in lower_msg for w in words)
AnyIn(words, s) == \E w \in words : Contains(s, w)

\* budget_percent and budget_percent > 0.9
OverBudget(budget_percent) ==
    /\ budget_percent # None
    /\ budget_percent[1] # 0
    /\ budget_percent[1] > NUDGE_BUDGET

Nudge(type) == [did_nudge |-> TRUE, nudge_type |-> Some(type)]
NoNudge == [did_nudge |-> FALSE, nudge_type |-> None]

\* streak_days >= 3 and any(w in lower_msg for w in [...])
StreakNudgeWeek(streak_days, lower_msg) ==
    IF streak_days >= STREAK_PROUD /\ AnyIn(STREAK_KEYWORDS, lower_msg)
    THEN Nudge("streak") ELSE NoNudge
StreakNudge(streak_days, lower_msg) ==
    IF streak_days >= NUDGE_STREAK /\ AnyIn(STREAK_KEYWORDS, lower_msg)
    THEN Nudge("streak") ELSE NoNudge

\* Detect if a nudge was included
DetectNudgeNoCooldown(can_nudge, can_budget_warning, budget_percent, streak_days, message) ==
    LET lower_msg == Lower(message) IN
    IF OverBudget(budget_percent)
    THEN IF AnyIn(BUDGET_KEYWORDS, lower_msg) THEN Nudge("budget") ELSE NoNudge
    ELSE StreakNudge(streak_days, lower_msg)
DetectNudge(can_nudge, can_budget_warning, budget_percent, streak_days, message) ==
    IF ~(can_nudge \/ can_budget_warning) THEN NoNudge
    ELSE LET lower_msg == Lower(message) IN
         IF can_budget_warning /\ OverBudget(budget_percent)
         THEN IF AnyIn(BUDGET_KEYWORDS, lower_msg) THEN Nudge("budget") ELSE NoNudge
         ELSE IF can_nudge THEN StreakNudge(streak_days, lower_msg)
         ELSE NoNudge

\* Generate updated summary
NewSummaryAnyTool(tool_name, action_result, conv_summary) ==
    IF action_result.ok
    THEN LET action_desc == summarize_action(tool_name, action_result)
         IN  Some(compress_summary(IF conv_summary # <<>>
                                   THEN conv_summary \o <<" ">> \o action_desc
                                   ELSE action_desc))
    ELSE None
NewSummary(tool_name, action_result, conv_summary) ==
    IF action_result.ok /\ tool_name # "greeting"
    THEN LET action_desc == summarize_action(tool_name, action_result)
             raw_summary == IF conv_summary # <<>>
                            THEN conv_summary \o <<" ">> \o action_desc
                            ELSE action_desc
         IN  Some(compress_summary(raw_summary))
    ELSE None

\* a Phase B that takes the reply for the conversation summary
phase_b_result_from_reply(tool_name, action_result, runtime_context, final_message) ==
    [phase |-> "B", final_message |-> final_message,
     new_summary |-> NewSummary(tool_name, action_result, final_message),
     did_nudge |-> FALSE, nudge_type |-> None]

\* OrchestrateResponsePhaseB(...) built from the reply the wrapper returned
phase_b_result(tool_name, action_result, runtime_context, final_message) ==
    LET runtime == Runtime(runtime_context)
        nudge   == DetectNudge(runtime.can_nudge, runtime.can_budget_warning,
                               BudgetPercent(runtime), StreakDays(runtime), final_message)
    IN  [phase |-> "B", final_message |-> final_message,
         new_summary |-> NewSummary(tool_name, action_result, ConvSummary(runtime.summary)),
         did_nudge |-> nudge.did_nudge, nudge_type |-> nudge.nudge_type]

\* phase_b from the return of _call_openai_text to its own return
phase_b_finish ==
    /\ pc = "returned"
    /\ op = "phase_b"
    /\ response' = Some(phase_b_result(request[1].tool_name[1], request[1].action_result[1],
                                       request[1].runtime_context, ret[1]))
    /\ pc' = "responded"
    /\ UNCHANGED <<maxRetries, op, attempt, calls, history, completion, last_exc, ret,
                   raised, log, request, http>>
    /\ UNCHANGED <<moodVars, compVars, turnVars, openVars, idVars, sumVars>>

----------------------------------------------------------------------------
(* The /orchestrate endpoint: app.orchestrate and the validation handler *)

ERROR_INVALID_PHASE == "INVALID_PHASE"
ERROR_MISSING_USER_TEXT == "MISSING_USER_TEXT"
ERROR_MISSING_ACTION_RESULT == "MISSING_ACTION_RESULT"
ERROR_LLM_ERROR == "LLM_ERROR"
ERROR_LLM_TIMEOUT == "LLM_TIMEOUT"

\* A request body: the phase tag and the fields the two request shapes
\* differ in; a field that is missing or null is None.
Body(phase, user_text, tool_name, action_result, runtime_context) ==
    [phase |-> phase, user_text |-> user_text, tool_name |-> tool_name,
     action_result |-> action_result, runtime_context |-> runtime_context]

ToolNames == {"register_transaction", "ask_balance", "greeting"}

ActionResults ==
    {ActionResult(FALSE, None), ActionResult(TRUE, None),
     Registered(JInt(3), <<"comida">>)}

MetricsValues ==
    {None} \cup
    {Some([tx_streak_days |-> d, budget_percent |-> b]) :
        d \in {NUDGE_STREAK - 1, NUDGE_STREAK},
        b \in {None, Some(NUDGE_BUDGET), Some(NUDGE_BUDGET + 1)}}

Summaries ==
    {None, Some(summarize_action("register_transaction", Registered(JInt(3), <<"comida">>)))}

RuntimeContexts ==
    {None} \cup
    {Some(RuntimeContext(s, m, n, b)) :
        s \in Summaries, m \in MetricsValues, n \in BOOLEAN, b \in BOOLEAN}

UserTexts == {None, Some(<<>>), Some(<<" ">>), Some(<<"hola">>)}

Bodies ==
    {Body("A", u, None, None, None) : u \in UserTexts} \cup
    {Body("B", None, Some(t), a, r) :
        t \in ToolNames, a \in {None} \cup {Some(x) : x \in ActionResults},
        r \in RuntimeContexts} \cup
    {Body("C", None, None, None, None)}

\* The body validates as OrchestrateRequestPhaseA: phase is "A" and
\* user_text is a str.
IsPhaseARequest(b) == b.phase = "A" /\ b.user_text # None

\* The body validates as OrchestrateRequestPhaseB: phase is "B", tool_name
\* is a str and action_result is an ActionResult.
IsPhaseBRequest(b) == b.phase = "B" /\ b.tool_name # None /\ b.action_result # None

HttpError(status, code) == [status |-> status, code |-> code]
HttpOk == [status |-> 200, code |-> None]

AppErr(msg) == [level |-> "err", src |-> "app", msg |-> msg]

\* The checks of the handler before it calls the orchestrator: the code of
\* the HTTPException(400) it raises, or None.
Rejection(req) ==
    CASE req.phase = "A" ->
           IF ~IsPhaseARequest(req) THEN Some(ERROR_INVALID_PHASE)
           ELSE IF req.user_text[1] = <<>> \/ Strip(req.user_text[1]) = <<>>
                THEN Some(ERROR_MISSING_USER_TEXT)
           ELSE None
      [] req.phase = "B" ->
           IF ~IsPhaseBRequest(req) THEN Some(ERROR_INVALID_PHASE)
           ELSE IF req.action_result = None THEN Some(ERROR_MISSING_ACTION_RESULT)
           ELSE None
      [] OTHER -> Some(ERROR_INVALID_PHASE)

\* A body that validates as neither request shape never reaches the handler:
\* the framework raises RequestValidationError, answered with 422.
validation_exception_handler ==
    /\ pc = "idle"
    /\ \E b \in Bodies :
         /\ ~(IsPhaseARequest(b) \/ IsPhaseBRequest(b))
         /\ request' = Some(b)
    /\ http' = Some(HttpError(422, None))
    /\ log' = Append(log, AppErr("Validation error 422"))
    /\ pc' = "answered"
    /\ UNCHANGED <<maxRetries, op, attempt, calls, history, completion, last_exc, ret,
                   raised, response>>
    /\ UNCHANGED <<moodVars, compVars, turnVars, openVars, idVars, sumVars>>

\* orchestrate from its entry to the call of _call_openai_* inside phase_a or
\* phase_b, or to the HTTPException(400) of its own checks, which the
\* handler "except HTTPException: raise" passes on unchanged.
orchestrate ==
    /\ pc = "idle"
    /\ \E b \in Bodies :
         /\ IsPhaseARequest(b) \/ IsPhaseBRequest(b)
         /\ request' = Some(b)
         /\ IF Rejection(b) # None
            THEN /\ http' = Some(HttpError(400, Rejection(b)))
                 /\ pc' = "answered"
                 /\ UNCHANGED <<op, attempt, calls, history, last_exc>>
            ELSE /\ pc' = "calling"
                 /\ op' = (IF b.phase = "A" THEN "phase_a" ELSE "phase_b")
                 /\ attempt' = 0
                 /\ calls' = 0
                 /\ history' = <<>>
                 /\ last_exc' = None
                 /\ UNCHANGED http
    /\ UNCHANGED <<maxRetries, completion, ret, raised, response, log>>
    /\ UNCHANGED <<moodVars, compVars, turnVars, openVars, idVars, sumVars>>

\* except APITimeoutError -> 503, except Exception -> 500
HttpOfException(exc) ==
    IF exc.kind = "APITimeoutError" THEN HttpError(503, Some(ERROR_LLM_TIMEOUT))
    ELSE HttpError(500, Some(ERROR_LLM_ERROR))

\* orchestrate from the return (or the exception) of phase_a / phase_b to
\* its own answer
orchestrate_return ==
    /\ request # None
    /\ pc \in {"responded", "raised", "failed"}
    /\ IF pc = "responded"
       THEN /\ http' = Some(HttpOk)
            /\ UNCHANGED log
       ELSE /\ http' = Some(HttpOfException(raised[1]))
            /\ log' = Append(log, AppErr(IF raised[1].kind = "APITimeoutError"
                                         THEN "LLM timeout" ELSE "LLM error"))
    /\ pc' = "answered"
    /\ UNCHANGED <<maxRetries, op, attempt, calls, history, completion, last_exc, ret,
                   raised, response, request>>
    /\ UNCHANGED <<moodVars, compVars, turnVars, openVars, idVars, sumVars>>

Next ==
    \/ phase_a_call
    \/ call_openai_json
    \/ call_openai_text
    \/ Iteration
    \/ phase_a_finish
    \/ phase_b_finish
    \/ validation_exception_handler
    \/ orchestrate
    \/ orchestrate_return

Spec == Init /\ [][Next]_vars

----------------------------------------------------------------------------
(* The conversation memory across Phase B turns *)

\* successful register_transaction turns of one conversation
MaxTurns == 6

TurnAmounts == {JInt(4), JInt(1500)}
TurnCategories == {<<"Comida">>, <<"Casa">>}

\* One turn: the tool registered a transaction, phase_b answered, and the
\* caller persisted new_summary as the summary of the next turn.
register_turn ==
    /\ turns < MaxTurns
    /\ \E amount \in TurnAmounts, category \in TurnCategories :
         memory' = NewSummary("register_transaction", Registered(amount, category),
                              ConvSummary(memory))
    /\ turns' = turns + 1
    /\ UNCHANGED <<reqVars, moodVars, compVars, openVars, idVars, sumVars>>

InitTurns == ReqIdle /\ MoodIdle /\ CompIdle /\ TurnIdle /\ OthersIdle

NextTurns == register_turn

SpecTurns == InitTurns /\ [][NextTurns]_vars

----------------------------------------------------------------------------
(* Claims about the conversation memory, stated for SpecTurns *)

\* the sentences of s about the category with key k: individual ones and
\* aggregates
C11_SentencesAbout(s, k) ==
    Len(C12_Individual(s, k)) + Cardinality(C12_AggregatePositions(s, k))

\* C11: with new_summary fed back as the next summary while successful
\* register_transaction turns keep arriving for a category, the sentences
\* about that category in the summary stay bounded: one aggregate and at
\* most one sentence not yet merged, however many turns there were.
C11_BoundedGrowth ==
    \A c \in TurnCategories : C11_SentencesAbout(ConvSummary(memory), Lower(c)) <= 2

----------------------------------------------------------------------------
(* Claims about Phase B and the endpoint, stated for Spec *)

PhaseBResponded == op = "phase_b" /\ response # None

\* C14: phase_b returns a non-null new_summary if and only if
\* action_result.ok is true and tool_name is not "greeting", for every reply
\* and every runtime context.
C14_NewSummaryIff ==
    PhaseBResponded =>
        ((response[1].new_summary # None)
           <=> (request[1].action_result[1].ok /\ request[1].tool_name[1] # "greeting"))

\* a successful greeting turn of a conversation that already has a summary
C14_Witness ==
    /\ PhaseBResponded
    /\ request[1].tool_name = Some("greeting")
    /\ request[1].action_result[1].ok
    /\ request[1].runtime_context # None
    /\ request[1].runtime_context[1].summary # None
    /\ response[1].new_summary = None

\* C15: every Phase B response has a non-empty final_message, also when the
\* provider's completion is empty or whitespace only.
C15_NonEmptyFinalMessage == PhaseBResponded => response[1].final_message # <<>>

C16_Runtime == Runtime(request[1].runtime_context)

\* the budget usage is known and above 0.9
C16_Over90 ==
    /\ BudgetPercent(C16_Runtime) # None
    /\ BudgetPercent(C16_Runtime)[1] > 900

\* C16: in every Phase B response did_nudge is true exactly when nudge_type
\* is non-null and nudge_type is a single value; budget only if
\* can_budget_warning and budget_percent > 0.9; streak only if can_nudge and
\* tx_streak_days >= 3; with both cooldown flags false no nudge is reported.
C16_NudgeGated ==
    PhaseBResponded =>
        LET r == response[1] IN
        /\ r.did_nudge <=> (r.nudge_type # None)
        /\ r.nudge_type \in {None, Some("budget"), Some("streak")}
        /\ r.nudge_type = Some("budget") => (C16_Runtime.can_budget_warning /\ C16_Over90)
        /\ r.nudge_type = Some("streak")
             => (C16_Runtime.can_nudge /\ StreakDays(C16_Runtime) >= 3)
        /\ (~C16_Runtime.can_nudge /\ ~C16_Runtime.can_budget_warning) => ~r.did_nudge

\* the reply of a turn names the streak, lowercased
C17_MentionsStreak ==
    \E w \in {<<"racha">>, <<"dias", " ", "seguidos">>, <<"constante">>} :
        Contains(Lower(response[1].final_message), w)

C17_MentionsBudget ==
    \E w \in {<<"presupuesto">>, <<"gastado">>, <<"limite">>, <<"cuidado">>} :
        Contains(Lower(response[1].final_message), w)

\* both cooldown flags are off while the reply warns about the budget and
\* praises the streak of a user over budget with a streak of three days
C16_Witness ==
    /\ PhaseBResponded
    /\ ~C16_Runtime.can_nudge
    /\ ~C16_Runtime.can_budget_warning
    /\ C16_Over90
    /\ StreakDays(C16_Runtime) >= 3
    /\ C17_MentionsStreak
    /\ C17_MentionsBudget
    /\ ~response[1].did_nudge

C17_StreakReported == response[1].did_nudge /\ response[1].nudge_type = Some("streak")

\* C17: whenever the reply is not flagged as a budget nudge, can_nudge is
\* true, tx_streak_days >= 3 and the lowercased reply contains a streak
\* keyword, phase_b reports did_nudge = true with nudge_type = streak.
C17_StreakWheneverNotBudget ==
    (PhaseBResponded /\ response[1].nudge_type # Some("budget")
       /\ C16_Runtime.can_nudge /\ StreakDays(C16_Runtime) >= 3 /\ C17_MentionsStreak)
      => C17_StreakReported

\* C17 as the code has it: the streak keywords are scanned only when the
\* budget branch is not taken, that is unless budget warnings are permitted
\* and budget_percent > 0.9; then can_nudge, tx_streak_days >= 3 and a streak
\* keyword in the reply give did_nudge = true with nudge_type = streak.
C17_StreakOutsideBudgetBranch ==
    (PhaseBResponded /\ ~(C16_Runtime.can_budget_warning /\ C16_Over90)
       /\ C16_Runtime.can_nudge /\ StreakDays(C16_Runtime) >= 3 /\ C17_MentionsStreak)
      => C17_StreakReported

\* budget warnings permitted with the budget exactly at 0.9, and a reply that
\* has a budget keyword and a streak keyword: the streak is reported
C17_Witness ==
    /\ PhaseBResponded
    /\ C16_Runtime.can_budget_warning
    /\ BudgetPercent(C16_Runtime) = Some(900)
    /\ C16_Runtime.can_nudge
    /\ StreakDays(C16_Runtime) = 3
    /\ C17_MentionsStreak
    /\ C17_MentionsBudget
    /\ C17_StreakReported

\* the request was answered after the provider was called
C18_Answered == pc = "answered" /\ history # <<>>

C18_FinalAttempt == history[Len(history)]

\* C18: a request fails with (503, LLM_TIMEOUT) exactly when the final
\* allowed provider attempt timed out, and with (500, LLM_ERROR) when the
\* final attempt failed for another reason; an earlier timeout followed by a
\* successful attempt gives a normal response, an earlier timeout followed by
\* a final failure of another kind gives the generic code.
C18_StatusFollowsFinalAttempt ==
    C18_Answered =>
        /\ (http = Some([status |-> 503, code |-> Some("LLM_TIMEOUT")]))
             <=> (Len(history) = maxRetries + 1 /\ C18_FinalAttempt = "APITimeoutError")
        /\ (Len(history) = maxRetries + 1
              /\ C18_FinalAttempt \notin {"ok", "APITimeoutError"})
             => http = Some([status |-> 500, code |-> Some("LLM_ERROR")])
        /\ C18_FinalAttempt = "ok" => http[1].status = 200

\* the specific code the request's validation error is to be answered with,
\* None when the request has no validation error
C19_ExpectedCode ==
    LET b == request[1] IN
    CASE b.phase = "A" /\ b.user_text # None /\ Strip(b.user_text[1]) = <<>>
           -> Some("MISSING_USER_TEXT")
      [] b.phase = "B" /\ b.action_result = None -> Some("MISSING_ACTION_RESULT")
      [] b.phase \notin {"A", "B"} -> Some("INVALID_PHASE")
      [] OTHER -> None

\* C19: an input validation error (blank user_text in Phase A, null
\* action_result in Phase B, wrong phase shape) is answered with a 400-class
\* error carrying its specific code, without any provider call, and not with
\* LLM_ERROR.
C19_ValidationErrorsCoded ==
    (pc = "answered" /\ C19_ExpectedCode # None) =>
        /\ http[1].status \in 400..499
        /\ http[1].code = C19_ExpectedCode
        /\ calls = 0
        /\ history = <<>>

\* phase_a returned a clarification for a mapping whose response_type is
\* missing or not one of the three valid values
C20_FellBack ==
    /\ op = "phase_a"
    /\ response # None
    /\ \/ "response_type" \notin DOMAIN ret[1]
       \/ ~IsValidType(ret[1]["response_type"])

\* C20: whenever Phase A falls back to clarification because response_type is
\* missing or not valid, an error-level log event carrying the raw response
\* has been emitted by the time the response is returned.
C20_FallbackLogged ==
    C20_FellBack =>
        \E i \in 1..Len(log) :
            log[i] = [level |-> "err", src |-> "orchestrator", full_response |-> ret[1]]

----------------------------------------------------------------------------
(* Claims about the wrapper's logging and parsing, stated for Spec *)

\* how many events equal to ev the log holds
C21_Count(ev) == Cardinality({i \in 1..Len(log) : log[i] = ev})

\* the failed attempts of the wrapper call so far
C21_Failures == Cardinality({i \in 1..Len(history) : history[i] # "ok"})

\* C21: in one wrapper call every failed attempt that is not the last allowed
\* one emits exactly one warning and is followed by another provider attempt;
\* the failure of the last allowed attempt emits no warning, and exactly one
\* error is logged before the exception is raised; a call that succeeds logs
\* no error.
C21_WarnPerRetryErrOnce ==
    /\ C21_Count([level |-> "warn", src |-> "openai"])
         = (IF C21_Failures <= maxRetries THEN C21_Failures ELSE maxRetries)
    /\ C21_Count([level |-> "err", src |-> "openai"])
         = (IF C21_Failures = maxRetries + 1 THEN 1 ELSE 0)
    /\ (history # <<>> /\ history[Len(history)] # "ok" /\ Len(history) <= maxRetries)
         => (pc = "calling" /\ attempt = Len(history))
    /\ pc = "raised" =>
         /\ C21_Failures = maxRetries + 1
         /\ log[Len(log)] = [level |-> "err", src |-> "openai"]
    /\ ret # None => C21_Count([level |-> "err", src |-> "openai"]) = 0

\* two retries and then the failure of the last allowed attempt
C21_Witness ==
    /\ pc = "raised"
    /\ maxRetries = 2
    /\ log = <<[level |-> "warn", src |-> "openai"], [level |-> "warn", src |-> "openai"],
               [level |-> "err", src |-> "openai"]>>

\* the completion the wrapper returned on was empty or whitespace only
C22_BlankCompletion ==
    /\ completion # None
    /\ \/ completion[1] = None
       \/ completion[1][1].kind = "blank"

\* the last attempt so far failed with this kind of exception
C22_LastFailed(kind) == history # <<>> /\ history[Len(history)] = kind

\* C22: in structured mode a completion that is not valid JSON is a failed
\* attempt exactly like a transport failure: it uses up one attempt, is
\* retried while attempts remain and raised after the last one; an empty or
\* whitespace-only completion is a success that yields the empty mapping, with
\* no further attempt.
C22_ParseFailureRetried ==
    (op # "none" /\ ModeOf(op) = "json") =>
        /\ \A kind \in {"JSONDecodeError", "APIError"} :
             C22_LastFailed(kind) =>
                 IF Len(history) <= maxRetries
                 THEN pc = "calling" /\ attempt = Len(history)
                 ELSE /\ pc \in {"raised", "answered"}
                      /\ raised = Some([kind |-> kind, at |-> maxRetries])
        /\ (completion # None /\ completion[1] # None)
             => completion[1][1].kind # "garbage"
        /\ C22_BlankCompletion =>
             /\ ret = Some(<<>>)
             /\ history[Len(history)] = "ok"
             /\ pc # "calling"

\* a completion that is not JSON is retried, and the retry returns whitespace
C22_Witness ==
    /\ ModeOf(op) = "json"
    /\ pc = "returned"
    /\ history = <<"JSONDecodeError", "ok">>
    /\ completion[1] # None
    /\ completion[1][1].kind = "blank"
    /\ completion[1][1].pad
    /\ ret = Some(<<>>)

----------------------------------------------------------------------------
(* The frame of a compression, stated for SpecCompress *)

\* the text between the matches: before the first, between neighbours, after
\* the last, each trimmed, the empty ones left out
C26_Spans ==
    LET n    == Len(C13_Matches)
        from == [i \in 1..(n + 1) |-> IF i = 1 THEN 1 ELSE C13_Matches[i - 1].end + 1]
        to   == [i \in 1..(n + 1) |->
                    IF i = n + 1 THEN Len(summary) ELSE C13_Matches[i].start - 1]
    IN  SelectSeq([i \in 1..(n + 1) |-> Strip(SubSeq(summary, from[i], to[i]))],
                  LAMBDA span : span # <<>>)

\* the spans as they are to open the output
C26_Head == Join(C26_Spans)

\* where the transaction sentences of the output begin
C26_TailStart == IF C26_Head = <<>> THEN 1 ELSE Len(C26_Head) + 2

\* the i-th matched sentence is the only one of its category
C26_Single(i) ==
    \A j \in 1..Len(C13_Matches) :
        Lower(Strip(C13_Matches[j].category)) = Lower(Strip(C13_Matches[i].category))
            => j = i

C26_Compresses == stage # "build" /\ Len(C13_Matches) >= 2 /\ C13_RepeatedCategory

\* C26: when _compress_summary compresses, every non-transaction span of the
\* input is in the output, in the original order and ahead of all transaction
\* sentences, and every category with exactly one transaction sentence keeps
\* that sentence unchanged.
C26_OnlyMergedSentencesChange ==
    C26_Compresses =>
        /\ SubSeq(out1, 1, Len(C26_Head)) = C26_Head
        /\ TokAt(out1, C26_TailStart) = "Registro"
        /\ \A i \in 1..Len(C13_Matches) :
             C26_Single(i) =>
                 \E p \in C26_TailStart..Len(out1) :
                     SubSeq(out1, p, p + C13_Matches[i].end - C13_Matches[i].start)
                       = SubSeq(summary, C13_Matches[i].start, C13_Matches[i].end)

\* a repeated category, a category with one sentence, and two other spans,
\* one of them between transaction sentences
C26_Witness ==
    /\ C26_Compresses
    /\ stage = "once"
    /\ Len(C26_Spans) >= 2
    /\ C13_Matches[1].start = 1
    /\ \E i \in 1..Len(C13_Matches) : C26_Single(i)

----------------------------------------------------------------------------
(* _extract_opening: the reply as a string of characters *)

\* A reply is typed in pieces; each piece is the string of characters below.
\* A vowel followed by ' is the one accented character.
Pieces ==
    ("Listo" :> <<"L", "i", "s", "t", "o">>) @@
    ("s" :> <<"s">>) @@
    ("," :> <<",">>) @@
    (" " :> <<" ">>) @@
    ("No" :> <<"N", "o">>) @@
    ("Ok" :> <<"O", "k">>) @@
    ("ay" :> <<"a", "y">>) @@
    ("Ya" :> <<"Y", "a">>) @@
    ("quedo'" :> <<"q", "u", "e", "d", "o'">>) @@
    ("anote'" :> <<"a", "n", "o", "t", "e'">>) @@
    ("puedo" :> <<"p", "u", "e", "d", "o">>) @@
    ("PERFECTO" :> <<"P", "E", "R", "F", "E", "C", "T", "O">>)

RECURSIVE Text(_)
Text(ps) == IF ps = <<>> THEN <<>> ELSE Pieces[Head(ps)] \o Text(Tail(ps))

KNOWN_OPENINGS ==
    << <<"l", "i", "s", "t", "o">>,
       <<"a", "n", "o", "t", "a", "d", "o">>,
       <<"h", "e", "c", "h", "o">>,
       <<"y", "a", " ", "q", "u", "e", "d", "o'">>,
       <<"p", "e", "r", "f", "e", "c", "t", "o">>,
       <<"o", "k">>,
       <<"b", "u", "e", "n", "a">>,
       <<"d", "a", "l", "e">> >>

UpperChars ==
    ("L" :> "l") @@ ("N" :> "n") @@ ("O" :> "o") @@ ("Y" :> "y") @@ ("P" :> "p") @@
    ("E" :> "e") @@ ("R" :> "r") @@ ("F" :> "f") @@ ("C" :> "c") @@ ("T" :> "t")

\* str.lower(), character by character
LowerChars(s) ==
    [i \in 1..Len(s) |-> IF s[i] \in DOMAIN UpperChars THEN UpperChars[s[i]] ELSE s[i]]

\* str.startswith
StartsWith(s, prefix) == Len(prefix) <= Len(s) /\ SubSeq(s, 1, Len(prefix)) = prefix

\* \w
IsWordChar(c) == c \notin {" ", ",", ".", "!"}

\* the last index of the run of \w characters that starts at p
RECURSIVE WordRunEnd(_, _)
WordRunEnd(s, p) ==
    IF p <= Len(s) /\ IsWordChar(s[p]) THEN WordRunEnd(s, p + 1) ELSE p - 1

\* re.match(r"^(\w+)[,\.!]", normalized): group 1 is the whole run of word
\* characters at the start, which one of , . ! has to follow
FirstWord(normalized) ==
    LET e == WordRunEnd(normalized, 1) IN
    IF e >= 1 /\ e < Len(normalized) /\ normalized[e + 1] \in {",", ".", "!"}
    THEN Some(SubSeq(normalized, 1, e))
    ELSE None

InOpenings(w) == \E i \in 1..Len(KNOWN_OPENINGS) : KNOWN_OPENINGS[i] = w

\* the loop over KNOWN_OPENINGS from index i: the first entry the reply starts with
RECURSIVE FirstOpening(_, _)
FirstOpening(normalized, i) ==
    IF i > Len(KNOWN_OPENINGS) THEN None
    ELSE IF StartsWith(normalized, KNOWN_OPENINGS[i]) THEN Some(KNOWN_OPENINGS[i])
    ELSE FirstOpening(normalized, i + 1)

\* an extractor that only knows the first-word pattern
extract_opening_by_word(text) ==
    LET match == FirstWord(Strip(LowerChars(text))) IN
    IF match # None /\ InOpenings(match[1]) THEN match ELSE None

extract_opening(text) ==
    LET normalized == Strip(LowerChars(text))
        found      == FirstOpening(normalized, 1)
        match      == FirstWord(normalized)
    IN  IF found # None THEN found
        ELSE IF match # None /\ InOpenings(match[1]) THEN match
        ELSE None

\* the caller types one more piece of the reply
type_reply ==
    /\ opening = None
    /\ Len(reply) < MaxReply
    /\ \E p \in DOMAIN Pieces : reply' = Append(reply, p)
    /\ UNCHANGED opening
    /\ UNCHANGED <<reqVars, moodVars, compVars, turnVars, idVars, sumVars>>

\* opening = self._extract_opening(final_message)
ExtractOpening ==
    /\ opening = None
    /\ opening' = Some(extract_opening(Text(reply)))
    /\ UNCHANGED reply
    /\ UNCHANGED <<reqVars, moodVars, compVars, turnVars, idVars, sumVars>>

InitOpening == ReqIdle /\ MoodIdle /\ CompIdle /\ TurnIdle /\ OthersIdle

NextOpening == type_reply \/ ExtractOpening

SpecOpening == InitOpening /\ [][NextOpening]_vars

\* the lowercased, trimmed reply
C23_Normalized == Strip(LowerChars(Text(reply)))

\* C23: _extract_opening returns None or a member of KNOWN_OPENINGS; it
\* returns an opener exactly when the lowercased, trimmed reply starts with
\* that entry, and None for every reply that starts with no entry.
C23_OpeningIffPrefix ==
    opening # None =>
        /\ opening[1] = None \/ InOpenings(opening[1][1])
        /\ \A i \in 1..Len(KNOWN_OPENINGS) :
             opening[1] = Some(KNOWN_OPENINGS[i])
                <=> StartsWith(C23_Normalized, KNOWN_OPENINGS[i])
        /\ opening[1] = None
                <=> \A i \in 1..Len(KNOWN_OPENINGS) :
                        ~StartsWith(C23_Normalized, KNOWN_OPENINGS[i])

\* "Listo, anote'" gives listo: the reply is capitalised and longer than the entry
C23_Witness ==
    /\ reply = <<"Listo", ",", " ", "anote'">>
    /\ opening = Some(Some(KNOWN_OPENINGS[1]))

\* "No puedo" starts with no entry
C23_WitnessNone ==
    /\ reply = <<"No", " ", "puedo">>
    /\ opening = Some(None)

----------------------------------------------------------------------------
(* get_gus_identity called by several threads on one Orchestrator *)

\* a load_prompt that reads the Phase B template whatever file is asked for
load_prompt_other(filename) == prompts["phase_b_system.txt"]

\* prompt_path.read_text()
load_prompt(filename) == prompts[filename]

\* if self._gus_identity is None
get_gus_identity_check(t) ==
    /\ tpc[t] = "start"
    /\ tpc' = [tpc EXCEPT ![t] = IF gus_identity = None THEN "load" ELSE "return"]
    /\ UNCHANGED <<prompts, gus_identity, loaded, returned>>
    /\ UNCHANGED <<reqVars, moodVars, compVars, turnVars, openVars, sumVars>>

\* self.load_prompt("gus_identity.txt"), its value not yet assigned
get_gus_identity_load(t) ==
    /\ tpc[t] = "load"
    /\ loaded' = [loaded EXCEPT ![t] = Some(load_prompt("gus_identity.txt"))]
    /\ tpc' = [tpc EXCEPT ![t] = "store"]
    /\ UNCHANGED <<prompts, gus_identity, returned>>
    /\ UNCHANGED <<reqVars, moodVars, compVars, turnVars, openVars, sumVars>>

\* self._gus_identity = <the loaded text>
get_gus_identity_store(t) ==
    /\ tpc[t] = "store"
    /\ gus_identity' = loaded[t]
    /\ tpc' = [tpc EXCEPT ![t] = "return"]
    /\ UNCHANGED <<prompts, loaded, returned>>
    /\ UNCHANGED <<reqVars, moodVars, compVars, turnVars, openVars, sumVars>>

\* return self._gus_identity
get_gus_identity_return(t) ==
    /\ tpc[t] = "return"
    /\ returned' = [returned EXCEPT ![t] = gus_identity]
    /\ tpc' = [tpc EXCEPT ![t] = "done"]
    /\ UNCHANGED <<prompts, gus_identity, loaded>>
    /\ UNCHANGED <<reqVars, moodVars, compVars, turnVars, openVars, sumVars>>

\* the thread serves another request and calls get_gus_identity again
call_again(t) ==
    /\ tpc[t] = "done"
    /\ tpc' = [tpc EXCEPT ![t] = "start"]
    /\ loaded' = [loaded EXCEPT ![t] = None]
    /\ returned' = [returned EXCEPT ![t] = None]
    /\ UNCHANGED <<prompts, gus_identity>>
    /\ UNCHANGED <<reqVars, moodVars, compVars, turnVars, openVars, sumVars>>

InitIdentity ==
    /\ ReqIdle /\ MoodIdle /\ CompIdle /\ TurnIdle /\ OpenIdle /\ SumIdle
    /\ prompts \in [PromptFiles -> PromptTexts]
    /\ IdFresh

NextIdentity ==
    \/ \E t \in Threads : get_gus_identity_check(t)
    \/ \E t \in Threads : get_gus_identity_load(t)
    \/ \E t \in Threads : get_gus_identity_store(t)
    \/ \E t \in Threads : get_gus_identity_return(t)
    \/ \E t \in Threads : call_again(t)

SpecIdentity == InitIdentity /\ [][NextIdentity]_vars

C24_File == Some(prompts["gus_identity.txt"])

\* C24: under any interleaving of concurrent get_gus_identity calls on one
\* Orchestrator, with the identity file static, every call returns the file's
\* content, the cache is always unset or equal to that content, and once set
\* it never changes, however many of the callers loaded the file.
C24_CacheIsTheFile ==
    /\ [](/\ gus_identity \in {None, C24_File}
          /\ \A t \in Threads : returned[t] \in {None, C24_File}
          /\ \A t \in Threads : tpc[t] = "done" => returned[t] = C24_File)
    /\ [][gus_identity # None => gus_identity' = gus_identity]_vars

\* two callers raced and both loaded the file, a third one found the cache
\* set, and all three have returned
C24_Witness ==
    /\ \A t \in Threads : tpc[t] = "done"
    /\ \E t1, t2 \in Threads : t1 # t2 /\ loaded[t1] # None /\ loaded[t2] # None
    /\ \E t \in Threads : loaded[t] = None

----------------------------------------------------------------------------
(* Phase B calls served one after the other by one Orchestrator *)

\* the arguments of the calls: every tool, a failed and a successful action,
\* and runtime contexts that agree on the summary and differ in the rest
ServedRuntimes ==
    {None,
     Some(RuntimeContext(None, Some([tx_streak_days |-> NUDGE_STREAK,
                                     budget_percent |-> Some(NUDGE_BUDGET + 1)]),
                         TRUE, TRUE))} \cup
    {Some(RuntimeContext(s, m, TRUE, TRUE)) :
        s \in Summaries \ {None},
        m \in {None, Some([tx_streak_days |-> NUDGE_STREAK,
                           budget_percent |-> Some(NUDGE_BUDGET + 1)])}}

ServedResults == {ActionResult(FALSE, None), Registered(JInt(3), <<"comida">>)}

\* the completions of the provider in these calls
ServedContents == {Some(<<"Hola">>), Some(<<"Cuidado", " ", "con", " ", "el", " ", "presupuesto", ".">>)}

\* gus_identity = self.get_gus_identity(), run by one thread from start to end
get_gus_identity ==
    IF gus_identity = None THEN Some(load_prompt("gus_identity.txt")) ELSE gus_identity

\* what is kept of a call: the three arguments the summary is made of, the
\* other inputs, and the new_summary of the response
ServedCall(tool_name, action_result, runtime_context, final_message) ==
    [key    |-> [tool_name |-> tool_name, action_result |-> action_result,
                 summary |-> Runtime(runtime_context).summary],
     rest   |-> [runtime_context |-> runtime_context, final_message |-> final_message],
     result |-> phase_b_result(tool_name, action_result, runtime_context,
                               final_message).new_summary]

\* a whole phase_b call that returns its response
phase_b_serve ==
    /\ sumServed < MaxServed
    /\ \E t \in ToolNames, a \in ServedResults, r \in ServedRuntimes, c \in ServedContents :
         LET call == ServedCall(t, a, r, TextBody(c, 0).value) IN
         /\ sumFirst' = IF sumFirst = None THEN Some(call) ELSE sumFirst
         /\ sumLast' = Some(call)
    /\ gus_identity' = get_gus_identity
    /\ sumServed' = sumServed + 1
    /\ UNCHANGED <<prompts, tpc, loaded, returned>>
    /\ UNCHANGED <<reqVars, moodVars, compVars, turnVars, openVars>>

\* a whole phase_b call in which every attempt of the wrapper failed: the
\* identity is cached by then, nothing is returned
phase_b_raise ==
    /\ sumServed < MaxServed
    /\ gus_identity' = get_gus_identity
    /\ sumServed' = sumServed + 1
    /\ UNCHANGED <<sumFirst, sumLast>>
    /\ UNCHANGED <<prompts, tpc, loaded, returned>>
    /\ UNCHANGED <<reqVars, moodVars, compVars, turnVars, openVars>>

InitServed == ReqIdle /\ MoodIdle /\ CompIdle /\ TurnIdle /\ OthersIdle

NextServed == phase_b_serve \/ phase_b_raise

SpecServed == InitServed /\ [][NextServed]_vars

\* C25: two phase_b calls with the same tool_name, action_result and runtime
\* summary return the same new_summary, whatever text the provider returned,
\* whatever the other runtime fields are and whatever the Orchestrator
\* served before.
C25_SameKeySameSummary ==
    (sumFirst # None /\ sumLast # None /\ sumFirst[1].key = sumLast[1].key)
        => sumFirst[1].result = sumLast[1].result

\* the first call and a later one, with calls served in between, agree on the
\* three arguments and on a new_summary that is a text, and differ in the
\* reply and in the runtime metrics
C25_Witness ==
    /\ sumServed = MaxServed
    /\ sumFirst # None /\ sumLast # None
    /\ sumFirst[1].key = sumLast[1].key
    /\ sumFirst[1].key.summary # None
    /\ sumFirst[1].result # None
    /\ sumFirst[1].rest.final_message # sumLast[1].rest.final_message
    /\ sumFirst[1].rest.runtime_context # sumLast[1].rest.runtime_context
    /\ gus_identity # None

============================================================================
